---- MODULE Spec2Model ----
(***************************************************************************)
(* JSON ingestion into SQLite preview tables (api/ingestion/json_loader.py)*)
(* and the paginated read side (api/routers/data_preview.py).              *)
(*                                                                         *)
(* Text is modelled as a sequence of one-character strings, so that        *)
(* identifier normalisation, number parsing and formatting are computed    *)
(* character by character.  A float is a whole number of tenths.           *)
(***************************************************************************)
EXTENDS Integers, Sequences, FiniteSets, TLC

VARIABLES
    dir,        \* the data root: the directory listing, in os.listdir order
    db,         \* the SQLite database: table name -> [cols, rows]
    summary,    \* what the last run_json_ingestion returned
    loads,      \* history: every sheet load of the last run, before and after
    ranOn,      \* history: the listing the last run worked on
    sameRuns,   \* history: consecutive runs on the unchanged listing
    nruns,      \* runs so far
    nwrites,    \* changes of the data root so far
    page,       \* what the last get_rows answered
    nreads,     \* get_rows requests so far
    obs,        \* the values one column has shown to _union_schema so far
    cur,        \* the type _union_schema holds for that column
    out,        \* the values _insert_rows binds for that column
    raw,        \* a name handed to _normalize_identifier
    width,      \* the max_len it is handed with
    idents,     \* the identifiers successive normalisations gave
    sanitized   \* what _sanitize_table gave for the last of them, if asked

ingestVars == <<dir, db, summary, loads, ranOn, sameRuns, nruns, nwrites>>
readVars == <<page, nreads>>
inferVars == <<obs, cur, out>>
identVars == <<raw, width, idents, sanitized>>
vars == <<dir, db, summary, loads, ranOn, sameRuns, nruns, nwrites, page, nreads, obs, cur, out,
         raw, width, idents, sanitized>>

\* the parts of the state a specification leaves alone
InitIngestIdle ==
    /\ dir = <<>>
    /\ db = <<>>
    /\ summary = <<>>
    /\ loads = <<>>
    /\ ranOn = <<>>
    /\ sameRuns = 0
    /\ nruns = 0
    /\ nwrites = 0

\* no request answered yet
NoPage == [req |-> <<>>, status |-> 0, total |-> 0, rows |-> <<>>]
InitReadIdle == page = NoPage /\ nreads = 0

InitInferIdle == obs = <<>> /\ cur = "" /\ out = <<>>

InitIdentIdle == raw = <<>> /\ width = 0 /\ idents = <<>> /\ sanitized = <<>>

----------------------------------------------------------------------------
(* Characters *)

LowerSeq == <<"a","b","c","d","e","f","g","h","i","j","k","l","m",
              "n","o","p","q","r","s","t","u","v","w","x","y","z">>
UpperSeq == <<"A","B","C","D","E","F","G","H","I","J","K","L","M",
              "N","O","P","Q","R","S","T","U","V","W","X","Y","Z">>
DigitSeq == <<"0","1","2","3","4","5","6","7","8","9">>

IndexOf(c, seq) ==
    IF \E i \in 1..Len(seq) : seq[i] = c
    THEN CHOOSE i \in 1..Len(seq) : seq[i] = c
    ELSE 0

IsDigit(c) == IndexOf(c, DigitSeq) # 0
IsLower(c) == IndexOf(c, LowerSeq) # 0
IsUpper(c) == IndexOf(c, UpperSeq) # 0
\* the class [0-9a-zA-Z] of the regular expression
IsAlnum(c) == IsDigit(c) \/ IsLower(c) \/ IsUpper(c)
ToLower(c) == IF IsUpper(c) THEN LowerSeq[IndexOf(c, UpperSeq)] ELSE c
Lower(s) == [i \in 1..Len(s) |-> ToLower(s[i])]
Min(a, b) == IF a <= b THEN a ELSE b
Max(a, b) == IF a >= b THEN a ELSE b
\* s[:n]
Take(s, n) == SubSeq(s, 1, Min(Max(n, 0), Len(s)))
\* s[n:]
Drop(s, n) == SubSeq(s, Min(n, Len(s)) + 1, Len(s))
Contains(s, c) == \E i \in 1..Len(s) : s[i] = c
\* sub in s
HasSubstring(s, sub) ==
    \E i \in 1..(Len(s) - Len(sub) + 1) : SubSeq(s, i, i + Len(sub) - 1) = sub
EndsWith(s, suffix) ==
    /\ Len(s) >= Len(suffix)
    /\ SubSeq(s, Len(s) - Len(suffix) + 1, Len(s)) = suffix

RECURSIVE Concat(_)
Concat(ss) == IF ss = <<>> THEN <<>> ELSE Head(ss) \o Concat(Tail(ss))

RECURSIVE Join(_, _)
Join(sep, ss) ==
    IF ss = <<>> THEN <<>>
    ELSE IF Len(ss) = 1 THEN ss[1]
    ELSE ss[1] \o sep \o Join(sep, Tail(ss))

----------------------------------------------------------------------------
(* _normalize_identifier *)

DefaultMaxLen == 60
Unnamed == <<"u","n","n","a","m","e","d">>

\* re.sub(r"[^0-9a-zA-Z]+", "_", name): every maximal run of other characters
\* becomes one underscore
ReSubNonAlnum(name) ==
    LET marked == [i \in 1..Len(name) |->
                     IF IsAlnum(name[i]) THEN name[i]
                     ELSE IF i = 1 \/ IsAlnum(name[i-1]) THEN "_" ELSE ""]
    IN SelectSeq(marked, LAMBDA c : c # "")

\* .strip("_")
StripUnderscores(s) ==
    LET keep == {i \in 1..Len(s) : s[i] # "_"}
    IN IF keep = {} THEN <<>>
       ELSE SubSeq(s, CHOOSE i \in keep : \A j \in keep : i <= j,
                      CHOOSE i \in keep : \A j \in keep : i >= j)

\* if not s: s = "unnamed"
OrUnnamed(s) == IF s = <<>> THEN Unnamed ELSE s

_normalize_identifier(name, max_len) ==
    Take(OrUnnamed(Lower(StripUnderscores(ReSubNonAlnum(name)))), max_len)

----------------------------------------------------------------------------
(* JSON values, as json.load gives them *)

NoText == <<>>
JNull == [k |-> "null", n |-> 0, s |-> NoText, items |-> <<>>]
JBool(b) == [k |-> "bool", n |-> IF b THEN 1 ELSE 0, s |-> NoText, items |-> <<>>]
JInt(i) == [k |-> "int", n |-> i, s |-> NoText, items |-> <<>>]
\* an int outside the signed 64-bit range: 2**63, kept by its digits
BigDigits == <<"9","2","2","3","3","7","2","0","3","6","8","5","4","7","7","5","8","0","8">>
JBig == [k |-> "bigint", n |-> 0, s |-> BigDigits, items |-> <<>>]
\* a float, in tenths
JFloat(t) == [k |-> "float", n |-> t, s |-> NoText, items |-> <<>>]
\* float(2**63)
JBigFloat == [k |-> "bigfloat", n |-> 0, s |-> NoText, items |-> <<>>]
JStr(cs) == [k |-> "str", n |-> 0, s |-> cs, items |-> <<>>]
\* items: the elements
JList(xs) == [k |-> "list", n |-> 0, s |-> NoText, items |-> xs]
\* items: [key, val] in document order
JDict(kvs) == [k |-> "dict", n |-> 0, s |-> NoText, items |-> kvs]
KV(key, val) == [key |-> key, val |-> val]

IsMapping(v) == v.k = "dict"
IsPyInt(v) == v.k \in {"int", "bigint"}
IsPyFloat(v) == v.k \in {"float", "bigfloat"}

----------------------------------------------------------------------------
(* Python's conversions *)

RECURSIVE DigitsVal(_)
DigitsVal(s) ==
    IF s = <<>> THEN 0
    ELSE 10 * DigitsVal(SubSeq(s, 1, Len(s) - 1)) + (IndexOf(s[Len(s)], DigitSeq) - 1)

RECURSIVE NatToChars(_)
NatToChars(n) ==
    IF n < 10 THEN <<DigitSeq[n + 1]>>
    ELSE NatToChars(n \div 10) \o <<DigitSeq[(n % 10) + 1]>>

Abs(n) == IF n < 0 THEN -n ELSE n
\* str(int)
IntToChars(n) == (IF n < 0 THEN <<"-">> ELSE <<>>) \o NatToChars(Abs(n))
\* str(float): repr of a number of tenths
FloatToChars(t) ==
    (IF t < 0 THEN <<"-">> ELSE <<>>) \o NatToChars(Abs(t) \div 10)
        \o <<".">> \o <<DigitSeq[(Abs(t) % 10) + 1]>>
BigFloatChars == <<"9",".","2","2","3","3","7","2","0","3","6","8","5","4","7","7","6","e","+","1","8">>

AllDigits(s) == \A i \in 1..Len(s) : IsDigit(s[i])
HasSign(s) == Len(s) > 0 /\ s[1] \in {"+", "-"}
Unsigned(s) == IF HasSign(s) THEN Tail(s) ELSE s
SignOf(s) == IF Len(s) > 0 /\ s[1] = "-" THEN -1 ELSE 1

\* int(s) for a str: an optional sign and decimal digits; ok = FALSE is ValueError
ParseInt(s) ==
    LET body == Unsigned(s)
        ok == Len(body) > 0 /\ AllDigits(body)
    IN [ok |-> ok, n |-> IF ok THEN SignOf(s) * DigitsVal(body) ELSE 0]

\* float(s) for a str holding a "." : digits "." digits, at most one digit of
\* fraction (the model's floats are tenths); ok = FALSE is ValueError
ParseFloat(s) ==
    LET body == Unsigned(s)
        dot == IndexOf(".", body)
        ip == SubSeq(body, 1, dot - 1)
        fp == SubSeq(body, dot + 1, Len(body))
        ok == /\ dot # 0
              /\ AllDigits(ip) /\ AllDigits(fp)
              /\ Len(ip) + Len(fp) > 0
              /\ Len(fp) <= 1
    IN [ok |-> ok,
        n |-> IF ok THEN SignOf(s) * (10 * DigitsVal(ip) + DigitsVal(fp)) ELSE 0]

\* int(x) for a float: truncation toward zero
FloatToInt(t) == IF t < 0 THEN -(Abs(t) \div 10) ELSE t \div 10

\* value.replace("Z", "+00:00")
ReplaceZ(s) ==
    Concat([i \in 1..Len(s) |->
              IF s[i] = "Z" THEN <<"+","0","0",":","0","0">> ELSE <<s[i]>>])

TwoDigits(s, i, lo, hi) ==
    /\ IsDigit(s[i]) /\ IsDigit(s[i+1])
    /\ DigitsVal(SubSeq(s, i, i + 1)) \in lo..hi

IsoDateOk(s) ==
    /\ Len(s) >= 10
    /\ AllDigits(SubSeq(s, 1, 4)) /\ DigitsVal(SubSeq(s, 1, 4)) >= 1
    /\ s[5] = "-" /\ TwoDigits(s, 6, 1, 12)
    /\ s[8] = "-" /\ TwoDigits(s, 9, 1, 31)

IsoTimeOk(s) ==
    /\ Len(s) >= 19
    /\ TwoDigits(s, 12, 0, 23)
    /\ s[14] = ":" /\ TwoDigits(s, 15, 0, 59)
    /\ s[17] = ":" /\ TwoDigits(s, 18, 0, 59)

IsoOffsetOk(s) ==
    /\ Len(s) = 25
    /\ s[20] \in {"+", "-"}
    /\ TwoDigits(s, 21, 0, 23)
    /\ s[23] = ":" /\ TwoDigits(s, 24, 0, 59)

IsoOk(s) ==
    /\ IsoDateOk(s)
    /\ \/ Len(s) = 10
       \/ Len(s) = 19 /\ IsoTimeOk(s)
       \/ Len(s) = 25 /\ IsoTimeOk(s) /\ IsoOffsetOk(s)

IsoFields(s, ok) ==
    [ok |-> ok,
     date |-> IF ok THEN SubSeq(s, 1, 10) ELSE <<>>,
     time |-> IF ok /\ Len(s) > 10 THEN SubSeq(s, 12, 19)
              ELSE <<"0","0",":","0","0",":","0","0">>,
     offset |-> IF ok /\ Len(s) = 25 THEN SubSeq(s, 20, 25) ELSE <<>>]

\* datetime.fromisoformat(s), for the forms YYYY-MM-DD, YYYY-MM-DD?HH:MM:SS and
\* YYYY-MM-DD?HH:MM:SS+HH:MM; ok = FALSE is ValueError
FromIsoFormat(s) == IsoFields(s, IsoOk(s))

\* dt.isoformat()
IsoFormat(dt) == dt.date \o <<"T">> \o dt.time \o dt.offset

_is_iso_datetime(value) == FromIsoFormat(ReplaceZ(value)).ok

\* repr(v) of a parsed JSON value
RECURSIVE PyRepr(_)
PyRepr(v) ==
    CASE v.k = "null" -> <<"N","o","n","e">>
      [] v.k = "bool" -> IF v.n = 1 THEN <<"T","r","u","e">> ELSE <<"F","a","l","s","e">>
      [] v.k = "int" -> IntToChars(v.n)
      [] v.k = "bigint" -> v.s
      [] v.k = "float" -> FloatToChars(v.n)
      [] v.k = "bigfloat" -> BigFloatChars
      [] v.k = "str" -> <<"'">> \o v.s \o <<"'">>
      [] v.k = "list" ->
           <<"[">> \o Join(<<",", " ">>, [i \in 1..Len(v.items) |-> PyRepr(v.items[i])])
                   \o <<"]">>
      [] v.k = "dict" ->
           <<"{">> \o Join(<<",", " ">>,
                           [i \in 1..Len(v.items) |->
                              <<"'">> \o v.items[i].key \o <<"'", ":", " ">>
                                      \o PyRepr(v.items[i].val)])
                   \o <<"}">>

\* str(v)
PyStr(v) == IF v.k = "str" THEN v.s ELSE PyRepr(v)

\* json.dumps(v, ensure_ascii=False)
RECURSIVE JsonDumps(_)
JsonDumps(v) ==
    CASE v.k = "null" -> <<"n","u","l","l">>
      [] v.k = "bool" -> IF v.n = 1 THEN <<"t","r","u","e">> ELSE <<"f","a","l","s","e">>
      [] v.k = "int" -> IntToChars(v.n)
      [] v.k = "bigint" -> v.s
      [] v.k = "float" -> FloatToChars(v.n)
      [] v.k = "bigfloat" -> BigFloatChars
      [] v.k = "str" -> <<"\"">> \o v.s \o <<"\"">>
      [] v.k = "list" ->
           <<"[">> \o Join(<<",", " ">>, [i \in 1..Len(v.items) |-> JsonDumps(v.items[i])])
                   \o <<"]">>
      [] v.k = "dict" ->
           <<"{">> \o Join(<<",", " ">>,
                           [i \in 1..Len(v.items) |->
                              <<"\"">> \o v.items[i].key \o <<"\"", ":", " ">>
                                       \o JsonDumps(v.items[i].val)])
                   \o <<"}">>

----------------------------------------------------------------------------
(* _infer_type *)

_infer_type(current, value) ==
    CASE value.k = "null" -> IF current = "" THEN "TEXT" ELSE current
      [] value.k = "bool" -> IF current \in {"", "INTEGER"} THEN "INTEGER" ELSE current
      [] IsPyInt(value) -> IF current \in {"", "INTEGER"} THEN "INTEGER" ELSE current
      [] IsPyFloat(value) ->
           IF current \in {"", "INTEGER", "REAL"} THEN "REAL" ELSE current
      [] value.k = "str" ->
           IF _is_iso_datetime(value.s)
           THEN IF current \in {"", "TEXT", "DATETIME"} THEN "DATETIME" ELSE current
           ELSE IF Contains(value.s, ".")
           THEN IF ParseFloat(value.s).ok
                THEN IF current \in {"", "INTEGER", "REAL", "TEXT"} THEN "REAL" ELSE current
                ELSE "TEXT"
           ELSE IF ParseInt(value.s).ok
                THEN IF current \in {"", "INTEGER", "TEXT"} THEN "INTEGER" ELSE current
                ELSE "TEXT"
      [] OTHER -> "TEXT"

----------------------------------------------------------------------------
(* _coerce_value: the value handed to the INSERT, one of None, int, float, str *)

\* except Exception: return str(value)
TextFallback(value) == JStr(PyStr(value))

_coerce_value(sql_type, value) ==
    IF value.k = "null" THEN JNull
    ELSE CASE sql_type = "INTEGER" ->
                CASE value.k = "bool" -> JInt(value.n)
                  [] IsPyInt(value) -> value
                  [] value.k = "float" -> JInt(FloatToInt(value.n))
                  [] value.k = "bigfloat" -> JBig
                  [] value.k = "str" ->
                       IF ParseInt(value.s).ok THEN JInt(ParseInt(value.s).n)
                       ELSE TextFallback(value)
                  [] OTHER -> TextFallback(value)
           [] sql_type = "REAL" ->
                CASE value.k = "bool" -> JFloat(10 * value.n)
                  [] value.k = "int" -> JFloat(10 * value.n)
                  [] value.k = "bigint" -> JBigFloat
                  [] IsPyFloat(value) -> value
                  [] value.k = "str" ->
                       IF ParseFloat(value.s).ok THEN JFloat(ParseFloat(value.s).n)
                       ELSE IF ParseInt(value.s).ok THEN JFloat(10 * ParseInt(value.s).n)
                       ELSE TextFallback(value)
                  [] OTHER -> TextFallback(value)
           [] sql_type = "DATETIME" ->
                IF value.k = "str"
                THEN IF FromIsoFormat(ReplaceZ(value.s)).ok
                     THEN JStr(IsoFormat(FromIsoFormat(ReplaceZ(value.s))))
                     ELSE TextFallback(value)
                ELSE JStr(PyStr(value))
           [] OTHER ->
                IF value.k \in {"dict", "list"} THEN JStr(JsonDumps(value))
                ELSE JStr(PyStr(value))

----------------------------------------------------------------------------
(* _union_schema: a schema is the dict's items in insertion order *)

SchemaHas(schema, col) == \E i \in 1..Len(schema) : schema[i].name = col
\* schema.get(col, "")
SchemaGet(schema, col) ==
    IF SchemaHas(schema, col)
    THEN schema[CHOOSE i \in 1..Len(schema) : schema[i].name = col].type
    ELSE ""
\* schema[col] = t
SchemaSetAt(schema, k, col, t) ==
    SubSeq(schema, 1, k - 1) \o <<[name |-> col, type |-> t]>>
                             \o SubSeq(schema, k + 1, Len(schema))
SchemaSet(schema, col, t) ==
    IF SchemaHas(schema, col)
    THEN SchemaSetAt(schema, CHOOSE i \in 1..Len(schema) : schema[i].name = col, col, t)
    ELSE Append(schema, [name |-> col, type |-> t])

\* prev = schema.get(col, ""); schema[col] = _infer_type(prev, v)
UnionItem(schema, col, v) ==
    SchemaSet(schema, col, _infer_type(SchemaGet(schema, col), v))

\* for k, v in r.items(): the items from the j-th on
RECURSIVE UnionItems(_, _, _)
UnionItems(items, j, schema) ==
    IF j > Len(items) THEN schema
    ELSE UnionItems(items, j + 1,
                    UnionItem(schema, _normalize_identifier(items[j].key, DefaultMaxLen),
                              items[j].val))

\* the one member of a set of one
Only(S) == CHOOSE x \in S : TRUE

\* for r in rows: the rows lo..hi in order. The pass is left to right; it is
\* written as the first half and then, from the schema that half gives, the
\* second half, so that a long sheet is evaluated with a shallow stack
RECURSIVE UnionRows(_, _, _, _)
UnionRows(rows, lo, hi, schema) ==
    IF lo > hi THEN schema
    ELSE IF lo = hi
    THEN IF IsMapping(rows[lo]) THEN UnionItems(rows[lo].items, 1, schema) ELSE schema
    ELSE Only({UnionRows(rows, ((lo + hi) \div 2) + 1, hi, first) :
                  first \in {UnionRows(rows, lo, (lo + hi) \div 2, schema)}})

RowColumn == <<"_","r","o","w">>

\* if not schema: schema["_row"] = "TEXT"
OrRowColumn(schema) ==
    IF schema = <<>> THEN <<[name |-> RowColumn, type |-> "TEXT"]>> ELSE schema

_union_schema(rows) == OrRowColumn(UnionRows(rows, 1, Len(rows), <<>>))

----------------------------------------------------------------------------
(* The SQLite database *)

NoTable == [exists |-> FALSE, cols |-> <<>>, rows |-> <<>>]
HasTable(d, table) == table \in DOMAIN d
TableOf(d, table) ==
    IF HasTable(d, table)
    THEN [exists |-> TRUE, cols |-> d[table].cols, rows |-> d[table].rows]
    ELSE NoTable
PutTable(d, table, t) ==
    [x \in DOMAIN d \cup {table} |-> IF x = table THEN t ELSE d[x]]
ColNames(cols) == {cols[i].name : i \in 1..Len(cols)}

\* the affinity SQLite gives a column of a declared type
Affinity(type) ==
    CASE type = "INTEGER" -> "INTEGER"
      [] type = "REAL" -> "REAL"
      [] type = "TEXT" -> "TEXT"
      [] OTHER -> "NUMERIC"

\* a text that SQLite reads as a number, and the number
NumericText(s) ==
    IF s = BigDigits THEN JBigFloat
    ELSE IF ParseInt(s).ok THEN JInt(ParseInt(s).n)
    ELSE IF ParseFloat(s).ok THEN JFloat(ParseFloat(s).n)
    ELSE JStr(s)

\* the number a stored or source value denotes, in tenths
Tenths(v) == IF v.k = "float" THEN v.n ELSE 10 * v.n

\* a REAL that is a whole number is kept as an integer
WholeToInt(v) == IF v.k = "float" /\ v.n % 10 = 0 THEN JInt(FloatToInt(v.n)) ELSE v
IntToReal(v) == IF v.k = "int" THEN JFloat(10 * v.n) ELSE v
SqliteBigFloatChars == <<"9",".","2","2","3","3","7","2","0","3","6","8","5","4","7","8","e","+","1","8">>

\* what a column of that affinity keeps of a bound None, int, float or str
ApplyAffinity(aff, v) ==
    CASE v.k = "null" -> v
      [] aff = "TEXT" ->
            CASE v.k = "int" -> JStr(IntToChars(v.n))
              [] v.k = "float" -> JStr(FloatToChars(v.n))
              [] v.k = "bigfloat" -> JStr(SqliteBigFloatChars)
              [] OTHER -> v
      [] aff = "REAL" ->
            IF v.k = "str" THEN IntToReal(NumericText(v.s)) ELSE IntToReal(v)
      [] OTHER ->
            IF v.k = "str" THEN WholeToInt(NumericText(v.s)) ELSE WholeToInt(v)

\* CREATE TABLE IF NOT EXISTS table (cols_sql)
CreateIfNotExists(d, table, schema) ==
    IF HasTable(d, table) THEN d
    ELSE PutTable(d, table, [cols |-> schema, rows |-> <<>>])

\* a table that lacks columns is dropped and made again with those columns
Recreate(d, table, t, missing) ==
    IF missing = <<>> THEN d
    ELSE PutTable(d, table, [cols |-> missing, rows |-> <<>>])

\* ALTER TABLE ADD COLUMN for each column of the schema that PRAGMA table_info
\* did not list; the rows in the table hold NULL in an added column
AddMissingColumns(d, table, t, missing) ==
    PutTable(d, table,
             [cols |-> t.cols \o missing,
              rows |-> [i \in 1..Len(t.rows) |->
                          [c \in ColNames(t.cols \o missing) |->
                             IF c \in ColNames(t.cols) THEN t.rows[i][c] ELSE JNull]]])

EnsureColumns(d, table, schema) ==
    AddMissingColumns(d, table, d[table],
                      SelectSeq(schema, LAMBDA e : e.name \notin ColNames(d[table].cols)))

_ensure_table(d, table, schema) ==
    EnsureColumns(CreateIfNotExists(d, table, schema), table, schema)

\* a load that keeps the rows it finds
KeepRows(d, table) == d

\* DELETE FROM table
_truncate_table(d, table) ==
    PutTable(d, table, [cols |-> d[table].cols, rows |-> <<>>])

batch_size == 500

\* the first key of the row that normalises to the column, else None
OrigVal(r, c) ==
    LET hits == {j \in 1..Len(r.items) :
                    _normalize_identifier(r.items[j].key, DefaultMaxLen) = c}
    IN IF hits = {} THEN JNull
       ELSE r.items[CHOOSE j \in hits : \A h \in hits : j <= h].val

\* vals: one bound value per schema column
RowVals(schema, r) ==
    [i \in 1..Len(schema) |-> _coerce_value(schema[i].type, OrigVal(r, schema[i].name))]

\* sqlite3 cannot bind a Python int outside the signed 64-bit range
Bindable(vals) == \A i \in 1..Len(vals) : vals[i].k # "bigint"

ColType(cols, c) == cols[CHOOSE i \in 1..Len(cols) : cols[i].name = c].type

\* a row kept under the types of the schema at hand
StoredUnderSchemaTypes(cols, schema, vals) ==
    [c \in ColNames(cols) |->
        IF SchemaHas(schema, c)
        THEN ApplyAffinity(Affinity(SchemaGet(schema, c)),
                           vals[CHOOSE i \in 1..Len(schema) : schema[i].name = c])
        ELSE JNull]

\* the row INSERT INTO table (column_list) VALUES (?, ...) adds
StoredRow(cols, schema, vals) ==
    [c \in ColNames(cols) |->
        IF SchemaHas(schema, c)
        THEN ApplyAffinity(Affinity(ColType(cols, c)),
                           vals[CHOOSE i \in 1..Len(schema) : schema[i].name = c])
        ELSE JNull]

AddCount(n, r) == [db |-> r.db, count |-> r.count + n, exc |-> r.exc]

\* how many rows of the batch go in before one cannot be bound
BoundPrefix(batch, bad) ==
    IF bad = {} THEN Len(batch) ELSE (CHOOSE i \in bad : \A j \in bad : i <= j) - 1

InsertPrefix(d, table, t, schema, batch, good) ==
    [db |-> PutTable(d, table,
               [cols |-> t.cols,
                rows |-> t.rows \o [i \in 1..good |-> StoredRow(t.cols, schema, batch[i])]]),
     exc |-> IF good = Len(batch) THEN "" ELSE "OverflowError"]

\* conn.executemany(sql, batch) on an autocommit connection: the rows go in one
\* by one; the first that cannot be bound raises OverflowError and the ones
\* before it stay
ExecuteMany(d, table, schema, batch) ==
    InsertPrefix(d, table, d[table], schema, batch,
                 BoundPrefix(batch, {i \in 1..Len(batch) : ~Bindable(batch[i])}))

\* the batches the loop hands to executemany, from the b-th on: each full batch
\* as soon as it holds batch_size rows, the rest after the loop
RECURSIVE InsertBatches(_, _, _, _, _)
RECURSIVE AfterBatch(_, _, _, _, _, _)
InsertBatches(d, table, schema, tuples, b) ==
    IF (b - 1) * batch_size + 1 > Len(tuples)
    THEN [db |-> d, count |-> 0, exc |-> ""]
    ELSE AfterBatch(table, schema, tuples, b,
                    Min(b * batch_size, Len(tuples)) - (b - 1) * batch_size,
                    ExecuteMany(d, table, schema,
                                SubSeq(tuples, (b - 1) * batch_size + 1,
                                       Min(b * batch_size, Len(tuples)))))

\* count += len(batch), unless executemany raised
AfterBatch(table, schema, tuples, b, n, r) ==
    IF r.exc # "" THEN [db |-> r.db, count |-> 0, exc |-> r.exc]
    ELSE AddCount(n, InsertBatches(r.db, table, schema, tuples, b + 1))

\* for r in rows: the rows that are mappings, each as its tuple of bound values
BoundTuples(schema, mappings) ==
    [i \in 1..Len(mappings) |-> RowVals(schema, mappings[i])]

\* a loop that never hands over the batch left when the rows run out
InsertFullBatches(d, table, schema, rows) ==
    InsertBatches(d, table, schema,
                  SubSeq(BoundTuples(schema, SelectSeq(rows, IsMapping)), 1,
                         (Len(SelectSeq(rows, IsMapping)) \div batch_size) * batch_size),
                  1)

_insert_rows(d, table, schema, rows) ==
    InsertBatches(d, table, schema, BoundTuples(schema, SelectSeq(rows, IsMapping)), 1)

----------------------------------------------------------------------------
(* run_json_ingestion *)

DotJson == <<".","j","s","o","n">>
SepSep == <<"_","_">>
DataSheet == <<"d","a","t","a">>

\* a directory entry: name, modification time, whether it is a regular file, and
\* what open + json.load give: the parsed value, or the exception they raise
File(name, mtime, data) ==
    [name |-> name, mtime |-> mtime, isfile |-> TRUE, exc |-> "", data |-> data]
BrokenFile(name, mtime, exc) ==
    [name |-> name, mtime |-> mtime, isfile |-> TRUE, exc |-> exc, data |-> JNull]
SubDir(name, mtime) ==
    [name |-> name, mtime |-> mtime, isfile |-> FALSE, exc |-> "IsADirectoryError", data |-> JNull]

\* the regular files whose lower-cased name ends in .json, most recently modified
\* first; list.sort is stable, also with reverse=True
_latest_json_files(listing) ==
    LET files == SelectSeq(listing, LAMBDA f : EndsWith(Lower(f.name), DotJson) /\ f.isfile)
        n == Len(files)
        rank(i) == Cardinality({j \in 1..n :
                        \/ files[j].mtime > files[i].mtime
                        \/ files[j].mtime = files[i].mtime /\ j < i}) + 1
    IN [r \in 1..n |-> files[CHOOSE i \in 1..n : rank(i) = r]]

\* os.path.splitext(name)[0]: the name up to its last dot, unless only dots
\* come before that dot
SplitExtRoot(name) ==
    LET dots == {i \in 1..Len(name) : name[i] = "."}
        last == CHOOSE i \in dots : \A j \in dots : i >= j
    IN IF dots = {} THEN name
       ELSE IF \A i \in 1..(last - 1) : name[i] = "." THEN name
       ELSE SubSeq(name, 1, last - 1)

\* one turn of "for raw_sheet, rows in data.items()": what it holds of its
\* variables, the database (d) and the exception raised, if any
SheetCtx(d, file, dataset_name, raw_sheet, rowsval) ==
    [d |-> d, file |-> file, dataset_name |-> dataset_name, raw_sheet |-> raw_sheet,
     rowsval |-> rowsval, sheet_name |-> <<>>, table |-> <<>>, rows |-> <<>>,
     schema |-> <<>>, pre |-> NoTable, ensured |-> NoTable, inserted |-> 0, exc |-> ""]

\* sheet_name = _normalize_identifier(str(raw_sheet))
SheetName(c) ==
    [c EXCEPT !.sheet_name = _normalize_identifier(c.raw_sheet, DefaultMaxLen)]

\* table = _normalize_identifier(f"{dataset_name}__{sheet_name}")
TableName(c) ==
    [c EXCEPT !.table = _normalize_identifier(c.dataset_name \o SepSep \o c.sheet_name,
                                              DefaultMaxLen)]

\* if not isinstance(rows, list): rows = [rows]
RowsList(c) ==
    [c EXCEPT !.rows = IF c.rowsval.k = "list" THEN c.rowsval.items ELSE <<c.rowsval>>]

\* schema = _union_schema(rows)
BuildSchema(c) == [c EXCEPT !.schema = _union_schema(c.rows)]

\* _ensure_table(conn, table, schema)
EnsureTable(c) ==
    [c EXCEPT !.pre = TableOf(c.d, c.table),
              !.d = _ensure_table(c.d, c.table, c.schema)]

\* _truncate_table(conn, table)
TruncateTable(c) ==
    [c EXCEPT !.ensured = TableOf(c.d, c.table),
              !.d = _truncate_table(c.d, c.table)]

Inserted(c, ins) == [c EXCEPT !.d = ins.db, !.inserted = ins.count, !.exc = ins.exc]

\* inserted = _insert_rows(conn, table, schema, rows)
InsertRows(c) == Inserted(c, _insert_rows(c.d, c.table, c.schema, c.rows))

ProcessSheet(d, file, dataset_name, raw_sheet, rowsval) ==
    InsertRows(TruncateTable(EnsureTable(BuildSchema(RowsList(TableName(SheetName(
        SheetCtx(d, file, dataset_name, raw_sheet, rowsval))))))))

\* file_entry["sheets"].append({...})
SheetEntry(c) ==
    [sheet |-> c.sheet_name, table |-> c.table, inserted |-> c.inserted, columns |-> c.schema]

\* history: the load as it happened
SheetLoad(c) ==
    [file |-> c.file, raw_sheet |-> c.raw_sheet, table |-> c.table, rows |-> c.rows,
     schema |-> c.schema, pre |-> c.pre, ensured |-> c.ensured,
     post |-> TableOf(c.d, c.table), inserted |-> c.inserted, exc |-> c.exc]

\* the sheets of one file from the j-th on; an exception ends the file
RECURSIVE ProcessSheets(_, _, _, _, _, _, _)
RECURSIVE AfterSheet(_, _, _, _, _, _, _)
ProcessSheets(d, file, dataset_name, items, j, sheets, lds) ==
    IF j > Len(items) THEN [db |-> d, sheets |-> sheets, loads |-> lds, exc |-> ""]
    ELSE AfterSheet(file, dataset_name, items, j, sheets, lds,
                    ProcessSheet(d, file, dataset_name, items[j].key, items[j].val))

AfterSheet(file, dataset_name, items, j, sheets, lds, c) ==
    IF c.exc # ""
    THEN [db |-> c.d, sheets |-> sheets, loads |-> Append(lds, SheetLoad(c)), exc |-> c.exc]
    ELSE ProcessSheets(c.d, file, dataset_name, items, j + 1,
                       Append(sheets, SheetEntry(c)), Append(lds, SheetLoad(c)))

\* base = os.path.splitext(os.path.basename(fp))[0]; _normalize_identifier(base)
DatasetName(f) == _normalize_identifier(SplitExtRoot(f.name), DefaultMaxLen)

\* if not isinstance(data, dict): data = {"data": data}
SheetsOf(f) ==
    IF f.data.k = "dict" THEN f.data.items ELSE <<KV(DataSheet, f.data)>>

\* summary["files"].append(file_entry); error = "" is no 'error' key
FileResult(f, dataset_name, r) ==
    [db |-> r.db,
     loads |-> r.loads,
     entry |-> [file |-> f.name, dataset |-> dataset_name,
                sheets |-> r.sheets, error |-> r.exc]]

\* the body of "for fp in files" for one file: open and json.load raise, or the
\* sheets are processed
ProcessFile(d, f) ==
    FileResult(f, DatasetName(f),
               IF f.exc # "" THEN [db |-> d, sheets |-> <<>>, loads |-> <<>>, exc |-> f.exc]
               ELSE ProcessSheets(d, f.name, DatasetName(f), SheetsOf(f), 1, <<>>, <<>>))

RECURSIVE ProcessFiles(_, _, _, _, _)
RECURSIVE AfterFile(_, _, _, _, _)
ProcessFiles(d, files, i, entries, lds) ==
    IF i > Len(files) THEN [db |-> d, files |-> entries, loads |-> lds]
    ELSE AfterFile(files, i, entries, lds, ProcessFile(d, files[i]))

\* a run that ends at the first file that raises
StopAtError(files, i, entries, lds, r) ==
    IF r.entry.error # ""
    THEN [db |-> r.db, files |-> Append(entries, r.entry), loads |-> lds \o r.loads]
    ELSE ProcessFiles(r.db, files, i + 1, Append(entries, r.entry), lds \o r.loads)

AfterFile(files, i, entries, lds, r) ==
    ProcessFiles(r.db, files, i + 1, Append(entries, r.entry), lds \o r.loads)

NoFilesMessage == "No JSON files found"

Summarize(r) ==
    [db |-> r.db, loads |-> r.loads, summary |-> [files |-> r.files, message |-> ""]]

\* message = "" is no 'message' key
IngestFiles(files, d) ==
    IF files = <<>>
    THEN [db |-> d, loads |-> <<>>,
          summary |-> [files |-> <<>>, message |-> NoFilesMessage]]
    ELSE Summarize(ProcessFiles(d, files, 1, <<>>, <<>>))

run_json_ingestion(listing, d) == IngestFiles(_latest_json_files(listing), d)

----------------------------------------------------------------------------
(* The data root's possible contents *)

MaxFiles == 2
MaxRuns == 2
MaxWrites == 2

N_people == <<"p","e","o","p","l","e",".","j","s","o","n">>
N_b == <<"b",".","J","S","O","N">>
N_B == <<"B",".","j","s","o","n">>
N_bad == <<"b","a","d",".","j","s","o","n">>
N_big == <<"b","i","g",".","j","s","o","n">>
N_c == <<"c",".","j","s","o","n">>
N_notes == <<"n","o","t","e","s",".","t","x","t">>
N_old == <<"o","l","d",".","j","s","o","n">>
S_Sheet1 == <<"S","h","e","e","t"," ","1">>
S_Age == <<"A","g","e">>
S_Name == <<"N","a","m","e">>
S_Ann == <<"A","n","n">>
S_Bob == <<"B","o","b">>
S_abc == <<"a","b","c">>
S_five == <<"5">>
S_onefive == <<"1",".","5">>
S_date == <<"2","0","2","4","-","0","1","-","1","5">>
S_stamp == <<"2","0","2","4","-","0","1","-","1","5","T","1","0",":","0","0",":","0","0","Z">>
S_a == <<"a">>
S_A == <<"A">>
S_s == <<"s">>
S_t == <<"t">>
S_u == <<"u">>
S_x == <<"x">>
S_Yy == <<"Y"," ","y">>

Row1(k1, v1) == JDict(<<KV(k1, v1)>>)
Row2(k1, v1, k2, v2) == JDict(<<KV(k1, v1), KV(k2, v2)>>)

PeopleV1 ==
    JDict(<<KV(S_Sheet1, JList(<<Row2(S_Age, JInt(30), S_Name, JStr(S_Ann)), JInt(7)>>))>>)
PeopleV2 ==
    JDict(<<KV(S_Sheet1, JList(<<Row2(S_Age, JInt(30), S_Name, JStr(S_Ann)),
                                Row2(S_Age, JFloat(315), S_Name, JStr(S_Bob))>>))>>)
BareArray == JList(<<Row1(S_x, JInt(1)), Row1(S_x, JInt(2))>>)
UpperB == JDict(<<KV(DataSheet, JList(<<Row1(S_x, JFloat(15))>>))>>)
BigSheets ==
    JDict(<<KV(S_s, JList(<<Row1(S_x, JInt(1))>>)),
            KV(S_t, JList(<<Row1(S_x, JInt(2)), Row1(S_x, JBig), Row1(S_x, JInt(3))>>)),
            KV(S_u, JList(<<Row1(S_x, JInt(3))>>))>>)
Colliding ==
    JDict(<<KV(S_A, JList(<<Row1(S_x, JStr(S_stamp))>>)),
            KV(S_a, Row2(S_x, JStr(S_abc), S_Yy, JStr(S_five)))>>)

FilePool ==
    { File(N_people, 3, PeopleV1),
      File(N_people, 4, PeopleV2),
      File(N_b, 2, BareArray),
      File(N_B, 2, UpperB),
      BrokenFile(N_bad, 3, "JSONDecodeError"),
      File(N_big, 2, BigSheets),
      File(N_c, 1, Colliding),
      File(N_notes, 5, BareArray),
      SubDir(N_old, 5) }

\* the listing once the file is written: in the place of the entry of its name,
\* or at the end
Written(listing, f) ==
    IF \E i \in 1..Len(listing) : listing[i].name = f.name
    THEN [i \in 1..Len(listing) |-> IF listing[i].name = f.name THEN f ELSE listing[i]]
    ELSE Append(listing, f)

Init ==
    /\ dir = <<>>
    /\ db = <<>>
    /\ summary = <<>>
    /\ loads = <<>>
    /\ ranOn = <<>>
    /\ sameRuns = 0
    /\ nruns = 0
    /\ nwrites = 0
    /\ InitReadIdle
    /\ InitInferIdle
    /\ InitIdentIdle

\* an entry of the data root is written, new or over the one of its name
WriteSource ==
    /\ nwrites < MaxWrites
    /\ \E f \in FilePool :
          /\ Written(dir, f) # dir
          /\ Len(Written(dir, f)) <= MaxFiles
          /\ dir' = Written(dir, f)
    /\ nwrites' = nwrites + 1
    /\ UNCHANGED <<db, summary, loads, ranOn, sameRuns, nruns, readVars, inferVars, identVars>>

Returned(r) ==
    /\ db' = r.db
    /\ summary' = r.summary
    /\ loads' = r.loads

\* POST /admin/ingest-json, or the command line: one whole run
RunIngestion ==
    /\ nruns < MaxRuns
    /\ Returned(run_json_ingestion(dir, db))
    /\ ranOn' = dir
    /\ sameRuns' = IF nruns > 0 /\ ranOn = dir THEN sameRuns + 1 ELSE 1
    /\ nruns' = nruns + 1
    /\ UNCHANGED <<dir, nwrites, readVars, inferVars, identVars>>

Next == WriteSource \/ RunIngestion

Spec == Init /\ [][Next]_vars

----------------------------------------------------------------------------
(* Sheets around the batch size through _truncate_table and _insert_rows *)

N_rows == <<"r","o","w","s",".","j","s","o","n">>

\* a sheet of m mappings {"x": 1} .. {"x": m}, alone or with elements that are
\* not mappings before and among them
SheetRows(m, mixed) ==
    IF mixed
    THEN <<JInt(0)>> \o [i \in 1..(m \div 2) |-> Row1(S_x, JInt(i))]
                     \o <<JNull, JStr(S_abc)>>
                     \o [i \in 1..(m - (m \div 2)) |-> Row1(S_x, JInt((m \div 2) + i))]
    ELSE [i \in 1..m |-> Row1(S_x, JInt(i))]

SheetSizes ==
    { <<0, FALSE>>, <<batch_size - 1, TRUE>>, <<batch_size, FALSE>>,
      <<batch_size + 1, TRUE>>, <<2 * batch_size + 1, TRUE>> }

SheetListings ==
    { <<File(N_rows, 1, JDict(<<KV(S_s, JList(SheetRows(z[1], z[2])))>>))>> : z \in SheetSizes }

InitLoad ==
    /\ dir \in SheetListings
    /\ db = <<>>
    /\ summary = <<>>
    /\ loads = <<>>
    /\ ranOn = <<>>
    /\ sameRuns = 0
    /\ nruns = 0
    /\ nwrites = 0
    /\ InitReadIdle
    /\ InitInferIdle
    /\ InitIdentIdle

\* rows.json is replaced between runs
WriteSheet ==
    /\ nwrites < MaxWrites
    /\ \E l \in SheetListings :
          /\ l # dir
          /\ dir' = l
    /\ nwrites' = nwrites + 1
    /\ UNCHANGED <<db, summary, loads, ranOn, sameRuns, nruns, readVars, inferVars, identVars>>

NextLoad == WriteSheet \/ RunIngestion

SpecLoad == InitLoad /\ [][NextLoad]_vars

----------------------------------------------------------------------------
(* get_rows: the paginated read of one table (api/routers/data_preview.py) *)

\* limit: int = Query(50, ge=1, le=200)
MaxLimit == 200

\* re.fullmatch(r"[a-z0-9_]+", s)
FullMatchIdent(s) ==
    /\ s # <<>>
    /\ \A i \in 1..Len(s) : IsLower(s[i]) \/ IsDigit(s[i]) \/ s[i] = "_"

\* the identifier, or <<>> where HTTPException(400) is raised
_sanitize_table(table) ==
    IF FullMatchIdent(_normalize_identifier(table, DefaultMaxLen))
    THEN _normalize_identifier(table, DefaultMaxLen)
    ELSE <<>>

\* X LIKE P for texts: % is any run of characters, _ any one character, letters
\* match without regard to case
RECURSIVE LikeMatch(_, _, _, _)
LikeMatch(p, i, s, j) ==
    IF i > Len(p) THEN j > Len(s)
    ELSE IF p[i] = "%" THEN \E k \in j..(Len(s) + 1) : LikeMatch(p, i + 1, s, k)
    ELSE /\ j <= Len(s)
         /\ p[i] = "_" \/ ToLower(p[i]) = ToLower(s[j])
         /\ LikeMatch(p, i + 1, s, j + 1)

\* "col" LIKE ? on what a TEXT column holds: a text or NULL, and NULL LIKE P is
\* not true
Like(v, p) == v.k = "str" /\ LikeMatch(p, 1, v.s, 1)

\* [r["name"] for r in info if "TEXT" in (r["type"] or "").upper()]
text_cols(cols) == {cols[i].name : i \in {k \in 1..Len(cols) : cols[k].type = "TEXT"}}

\* the rows WHERE "c1" LIKE ? OR "c2" LIKE ? ... keeps, with like = f"%{search}%";
\* no WHERE at all without a search or without TEXT columns
Matching(t, search) ==
    IF search = <<>> \/ text_cols(t.cols) = {} THEN t.rows
    ELSE SelectSeq(t.rows,
                   LAMBDA r : \E c \in text_cols(t.cols) :
                                 Like(r[c], <<"%">> \o search \o <<"%">>))

\* the characters of the pool's texts in code point order
CodeOrder == <<" ", "%", "-", ".">> \o DigitSeq \o <<":">> \o UpperSeq \o <<"_">> \o LowerSeq
Code(c) == IndexOf(c, CodeOrder)

\* memcmp order of two texts (the BINARY collation)
TextLess(a, b) ==
    \E k \in 1..(Len(b)) :
        /\ \A i \in 1..(k - 1) : i <= Len(a) /\ a[i] = b[i]
        /\ k > Len(a) \/ (k <= Len(a) /\ Code(a[k]) < Code(b[k]))

\* ORDER BY: NULL first, then the numbers by value, then the texts
StorageRank(v) ==
    CASE v.k = "null" -> 0
      [] v.k \in {"int", "float"} -> 1
      [] OTHER -> 2
Before(a, b) ==
    \/ StorageRank(a) < StorageRank(b)
    \/ StorageRank(a) = 1 /\ StorageRank(b) = 1 /\ Tenths(a) < Tenths(b)
    \/ StorageRank(a) = 2 /\ StorageRank(b) = 2 /\ TextLess(a.s, b.s)

\* the orders the page query can return the rows in: the table's order without
\* ORDER BY; with it any order sorted by the column, rows of equal value in
\* either order
Arrangements(rows, ob, desc) ==
    IF ob = <<>> THEN {rows}
    ELSE {[i \in 1..Len(rows) |-> rows[f[i]]] :
             f \in {g \in Permutations(1..Len(rows)) :
                      \A i, j \in 1..Len(rows) :
                          i < j => IF desc THEN ~Before(rows[g[i]][ob], rows[g[j]][ob])
                                   ELSE ~Before(rows[g[j]][ob], rows[g[i]][ob])}}

Answer(req, status, total, rows) ==
    [req |-> req, status |-> status, total |-> total, rows |-> rows]

\* a read that counts the rows of the page it returns
PagesCountingThePage(req, matching, ob) ==
    {Answer(req, 200, Len(Take(Drop(ordered, req.offset), req.limit)),
            Take(Drop(ordered, req.offset), req.limit)) :
        ordered \in Arrangements(matching, ob, Lower(req.order_dir) # <<"a","s","c">>)}

\* SELECT COUNT(1) ...; SELECT ... LIMIT ? OFFSET ?; RowPage(total, limit, offset, rows)
RowPages(req, matching, ob) ==
    {Answer(req, 200, Len(matching), Take(Drop(ordered, req.offset), req.limit)) :
        ordered \in Arrangements(matching, ob, Lower(req.order_dir) # <<"a","s","c">>)}

\* from "Validate order_by" on: 400 for an order_by that is not a column
OrderedRows(req, t, ob) ==
    IF req.order_by # <<>> /\ (ob = <<>> \/ ob \notin ColNames(t.cols))
    THEN {Answer(req, 400, 0, <<>>)}
    ELSE RowPages(req, Matching(t, req.search), ob)

\* from PRAGMA table_info on: 404 for a table that has no columns
TableRows(d, req, tname) ==
    IF tname = <<>> THEN {Answer(req, 400, 0, <<>>)}
    ELSE IF ~HasTable(d, tname) THEN {Answer(req, 404, 0, <<>>)}
    ELSE OrderedRows(req, d[tname],
                     IF req.order_by = <<>> THEN <<>> ELSE _sanitize_table(req.order_by))

\* the answers get_rows can give; 422 is the framework's for a limit outside
\* 1..200 or a negative offset
get_rows(d, req) ==
    IF req.limit < 1 \/ req.limit > MaxLimit \/ req.offset < 0
    THEN {Answer(req, 422, 0, <<>>)}
    ELSE TableRows(d, req, _sanitize_table(req.dataset \o SepSep \o req.sheet))

N_staff == <<"s","t","a","f","f",".","j","s","o","n">>
N_nums == <<"n","u","m","s",".","j","s","o","n">>
S_TeamA == <<"T","e","a","m"," ","A">>
S_City == <<"C","i","t","y">>
S_ANNA == <<"A","N","N","A">>
S_bob == <<"b","o","b">>
S_Oslo == <<"O","s","l","o">>
S_Bonn == <<"B","o","n","n">>
S_x_y == <<"x","_","y">>
S_n == <<"n">>
S_v == <<"v">>
S_an == <<"a","n">>
S_pct == <<"%">>
S_us == <<"_">>
S_zz == <<"z","z">>
S_asc == <<"a","s","c">>
S_DESC == <<"D","E","S","C">>
S_Staff == <<"S","t","a","f","f">>
S_nums == <<"n","u","m","s">>
S_nope == <<"n","o","p","e">>
S_city == <<"c","i","t","y">>

Row3(k1, v1, k2, v2, k3, v3) == JDict(<<KV(k1, v1), KV(k2, v2), KV(k3, v3)>>)

StaffData ==
    JDict(<<KV(S_TeamA,
               JList(<<Row3(S_Name, JStr(S_Ann), S_Age, JInt(30), S_City, JStr(S_Oslo)),
                       Row3(S_Name, JStr(S_bob), S_Age, JInt(25), S_City, JNull),
                       Row3(S_Name, JStr(S_ANNA), S_Age, JInt(30), S_City, JStr(S_Bonn)),
                       Row3(S_Name, JNull, S_Age, JNull, S_City, JStr(S_x_y))>>))>>)
NumsData ==
    JDict(<<KV(S_n, JList(<<Row1(S_v, JInt(3)), Row1(S_v, JFloat(15)), Row1(S_v, JInt(3))>>))>>)

ReadListing == <<File(N_staff, 2, StaffData), File(N_nums, 1, NumsData)>>

MaxReads == 1

Request(dataset, sheet, limit, offset, search, order_by, order_dir) ==
    [dataset |-> dataset, sheet |-> sheet, limit |-> limit, offset |-> offset,
     search |-> search, order_by |-> order_by, order_dir |-> order_dir]

\* an order_by with its order_dir
Orders == {<<<<>>, S_asc>>, <<S_Age, S_DESC>>, <<S_city, S_asc>>, <<S_v, S_asc>>}

Requests ==
    {Request(S_Staff, S_TeamA, l, o, q, ord[1], ord[2]) :
        l \in {2, MaxLimit}, o \in {0, 1, 4}, q \in {<<>>, S_an, S_us},
        ord \in Orders \ {<<S_v, S_asc>>}}
    \cup {Request(S_nums, S_n, l, o, q, ord[1], ord[2]) :
        l \in {2, MaxLimit}, o \in {0, 3}, q \in {<<>>, S_an},
        ord \in {<<<<>>, S_asc>>, <<S_v, S_asc>>}}
    \cup {Request(S_Staff, S_TeamA, 0, 0, <<>>, <<>>, S_asc),
          Request(S_Staff, S_TeamA, MaxLimit + 1, 0, <<>>, <<>>, S_asc),
          Request(S_Staff, S_TeamA, 1, -1, <<>>, <<>>, S_asc),
          Request(S_Staff, S_TeamA, 2, 0, S_zz, S_nope, S_asc),
          Request(S_Staff, S_TeamA, 2, 0, S_pct, S_Age, S_asc),
          Request(S_Staff, S_n, 2, 0, <<>>, <<>>, S_asc)}

InitRead ==
    /\ dir = ReadListing
    /\ db = <<>>
    /\ summary = <<>>
    /\ loads = <<>>
    /\ ranOn = <<>>
    /\ sameRuns = 0
    /\ nruns = 0
    /\ nwrites = 0
    /\ InitReadIdle
    /\ InitInferIdle
    /\ InitIdentIdle

\* GET /datasets/{dataset}/sheets/{sheet}/rows
GetRows ==
    /\ nreads < MaxReads
    /\ \E req \in Requests : page' \in get_rows(db, req)
    /\ nreads' = nreads + 1
    /\ UNCHANGED <<ingestVars, inferVars, identVars>>

NextRead == RunIngestion \/ GetRows

SpecRead == InitRead /\ [][NextRead]_vars

----------------------------------------------------------------------------
(* One column through _union_schema and _insert_rows *)

MaxObs == 3


ColumnValues ==
    { JNull, JBool(TRUE), JInt(5), JBig, JFloat(15), JFloat(-15),
      JStr(S_abc), JStr(S_five), JStr(S_onefive), JStr(S_date), JStr(S_stamp),
      JDict(<<KV(S_a, JInt(1))>>), JList(<<JInt(1), JStr(S_a)>>) }

\* schema.get(col, "") for a column no row has shown yet
InitInfer ==
    /\ InitIngestIdle
    /\ InitReadIdle
    /\ InitInferIdle
    /\ InitIdentIdle

\* _union_schema meets the column's next value: schema[col] = _infer_type(prev, v)
Observe ==
    /\ out = <<>>
    /\ Len(obs) < MaxObs
    /\ \E v \in ColumnValues :
          /\ obs' = Append(obs, v)
          /\ cur' = _infer_type(cur, v)
    /\ UNCHANGED <<out, ingestVars, readVars, identVars>>

\* _insert_rows binds the column's values under the schema's final type
CoerceColumn ==
    /\ out = <<>>
    /\ obs # <<>>
    /\ out' = [i \in 1..Len(obs) |-> _coerce_value(cur, obs[i])]
    /\ UNCHANGED <<obs, cur, ingestVars, readVars, identVars>>

NextInfer == Observe \/ CoerceColumn

SpecInfer == InitInfer /\ [][NextInfer]_vars

----------------------------------------------------------------------------
(* A name through _normalize_identifier, again, and through _sanitize_table *)

MaxNameLen == 3
MaxWidth == 3
MaxApply == 2

\* a lower-case letter, an upper-case letter, a digit, and two characters that
\* are not alphanumeric
NameChars == {"a", "B", "7", "_", " "}

\* every name of up to MaxNameLen of these characters, the empty one included
ShortNames == UNION {[1..k -> NameChars] : k \in 0..MaxNameLen}

\* names around the default max_len: letters up to two characters short of
\* it, then a short name
LongNames == {[i \in 1..(DefaultMaxLen - 2) |-> "x"] \o t : t \in ShortNames}

InitIdent ==
    /\ InitIngestIdle
    /\ InitReadIdle
    /\ InitInferIdle
    /\ \/ raw \in ShortNames /\ width \in 1..MaxWidth
       \/ raw \in ShortNames \cup LongNames /\ width = DefaultMaxLen
    /\ idents = <<>>
    /\ sanitized = <<>>

\* _normalize_identifier(name, max_len) on the name, then on what it returned
Normalize ==
    /\ Len(idents) < MaxApply
    /\ idents' = Append(idents,
                        _normalize_identifier(IF idents = <<>> THEN raw
                                              ELSE idents[Len(idents)], width))
    /\ UNCHANGED <<raw, width, sanitized, ingestVars, readVars, inferVars>>

\* the read side is asked for a table or column by the name ingestion gave it
\* (ingestion normalises with the default max_len): _sanitize_table(name)
Sanitize ==
    /\ width = DefaultMaxLen
    /\ idents # <<>>
    /\ sanitized = <<>>
    /\ sanitized' = <<_sanitize_table(idents[1])>>
    /\ UNCHANGED <<raw, width, idents, ingestVars, readVars, inferVars>>

NextIdent == Normalize \/ Sanitize

SpecIdent == InitIdent /\ [][NextIdent]_vars

----------------------------------------------------------------------------
(* Claims about one column's inference and coercion (SpecInfer) *)

\* C2: TEXT is absorbing in type inference: within one _union_schema pass, once a
\* column's type is TEXT, no later value of the column changes it.
C2_TextIsAbsorbing == [][cur = "TEXT" => cur' = "TEXT"]_vars

\* the stored value equals the source value: the same number (a boolean as 0/1),
\* the same text, the number a numeric text spells, or the instant a datetime
\* text spells
SameValue(src, st) ==
    CASE src.k \in {"bool", "int", "float"} ->
           st.k \in {"int", "float"} /\ Tenths(st) = Tenths(src)
      [] src.k \in {"bigint", "bigfloat"} -> st.k \in {"bigint", "bigfloat"}
      [] src.k = "str" ->
           \/ st = src
           \/ st.k = "int" /\ ParseInt(src.s).ok /\ st.n = ParseInt(src.s).n
           \/ st.k = "float" /\ ParseFloat(src.s).ok /\ st.n = ParseFloat(src.s).n
           \/ st.k = "float" /\ ParseInt(src.s).ok /\ st.n = 10 * ParseInt(src.s).n
           \/ /\ st.k = "str"
              /\ FromIsoFormat(ReplaceZ(src.s)).ok
              /\ FromIsoFormat(ReplaceZ(st.s)) = FromIsoFormat(ReplaceZ(src.s))
      [] OTHER -> FALSE

\* the stored value is the source value's text form: str(v) or json.dumps(v)
IsTextForm(src, st) == st.k = "str" /\ st.s \in {PyStr(src), JsonDumps(src)}

Lossless(src, st) ==
    IF src.k = "null" THEN st = JNull
    ELSE SameValue(src, st) \/ IsTextForm(src, st)

\* C9: values are stored without loss: every value bound under the column type
\* that _union_schema inferred is null for null, and otherwise equal to the source
\* value or the source value's text form.
C9_StoredWithoutLoss ==
    out # <<>> => \A i \in 1..Len(obs) : Lossless(obs[i], out[i])

\* a sheet whose rows give the column "a" the values, one row each
ColumnRows(values) == [i \in 1..Len(values) |-> Row1(S_a, values[i])]

\* the type _union_schema infers for the column of these values
InferredFor(values) == SchemaGet(_union_schema(ColumnRows(values)), S_a)

\* the values with the nulls removed
NonNull(values) == SelectSeq(values, LAMBDA v : v.k # "null")

\* C11: a null carries no information for type inference: the type inferred for
\* a column's values is the type inferred for them with the nulls removed,
\* wherever the nulls stand, and a column whose values are all null is TEXT.
C11_NullsCarryNoInformation ==
    obs # <<>> =>
       cur = IF NonNull(obs) = <<>> THEN "TEXT" ELSE InferredFor(NonNull(obs))

----------------------------------------------------------------------------
(* Claims about ingestion runs (Spec) *)

\* the sheet entries a run reported, each with its file's entry
Reported ==
    IF nruns = 0 THEN {}
    ELSE UNION {{[f |-> summary.files[i], e |-> summary.files[i].sheets[j]] :
                    j \in 1..Len(summary.files[i].sheets)} : i \in 1..Len(summary.files)}

\* C1: every table a run creates and reports is named <dataset>__<sheet>, the
\* normalized dataset name, the two-underscore separator, the normalized sheet
\* name, and so contains the separator "__".
C1_TableIsDatasetSepSheet ==
    \A r \in Reported :
        /\ r.e.table = r.f.dataset \o SepSep \o r.e.sheet
        /\ HasSubstring(r.e.table, SepSep)

\* the loads of the last run, by position
LoadIx == 1..Len(loads)

\* C7: different sheets never share a table: within a run no two distinct
\* (file, sheet) pairs are loaded into the same table, and after a run without
\* errors every reported table holds exactly the entry's 'inserted' rows.
C7_SheetsNeverShareATable ==
    /\ \A i, j \in LoadIx :
          <<loads[i].file, loads[i].raw_sheet>> # <<loads[j].file, loads[j].raw_sheet>>
             => loads[i].table # loads[j].table
    /\ (nruns > 0 /\ \A i \in 1..Len(summary.files) : summary.files[i].error = "")
          => \A r \in Reported : Len(db[r.e.table].rows) = r.e.inserted

\* what a summary says of each sheet: its inserted count and its schema
SheetReports(sm) ==
    [i \in 1..Len(sm.files) |->
        [j \in 1..Len(sm.files[i].sheets) |->
            [table |-> sm.files[i].sheets[j].table,
             inserted |-> sm.files[i].sheets[j].inserted,
             columns |-> sm.files[i].sheets[j].columns]]]

\* C3: ingestion is idempotent: a run that follows a run on the same unchanged
\* source directory reports the same per-sheet inserted counts and schemas as
\* the run before it and leaves every table with the same columns and rows.
C3_Idempotent ==
    [][(nruns' = nruns + 1 /\ nruns > 0 /\ ranOn = dir)
          => /\ SheetReports(summary') = SheetReports(summary)
             /\ db' = db]_vars

\* a second run on an unchanged directory has reloaded a table that holds rows
C3_Witness ==
    /\ sameRuns >= 2
    /\ \E i \in LoadIx :
          /\ loads[i].exc = ""
          /\ Len(loads[i].pre.rows) > 0
          /\ Len(loads[i].post.rows) > 0

\* the class names of the exceptions the pool's files raise
ExceptionNames == {"JSONDecodeError", "OverflowError"}

\* the listing without the file of that name
Without(listing, name) == SelectSeq(listing, LAMBDA f : f.name # name)

\* the tables a file entry names
TablesOf(entry) == {entry.sheets[j].table : j \in 1..Len(entry.sheets)}

Extended(cols, schema) ==
    cols \o SelectSeq(schema, LAMBDA e : \A i \in 1..Len(cols) : cols[i].name # e.name)

\* what _ensure_table did in a load: an absent table is created with the schema's
\* columns, an existing one gets the schema's columns it lacks and keeps its rows
EnsuredAdditively(l) ==
    /\ l.ensured.exists
    /\ IF l.pre.exists
       THEN /\ l.ensured.cols = Extended(l.pre.cols, l.schema)
            /\ Len(l.ensured.rows) = Len(l.pre.rows)
            /\ \A i \in 1..Len(l.pre.rows) :
                  \A c \in ColNames(l.pre.cols) : l.ensured.rows[i][c] = l.pre.rows[i][c]
       ELSE /\ l.ensured.cols = l.schema
            /\ l.ensured.rows = <<>>

\* C5: schema evolution is additive only: over any runs on any source contents
\* no table is dropped, no table loses a column, every column keeps the declared
\* type it was created with, and _ensure_table only creates an absent table with
\* the schema's columns or adds the columns an existing table lacks.
C5_AdditiveOnly ==
    [][/\ \A t \in DOMAIN db :
             /\ t \in DOMAIN db'
             /\ Len(db[t].cols) <= Len(db'[t].cols)
             /\ \A i \in 1..Len(db[t].cols) : db'[t].cols[i] = db[t].cols[i]
       /\ \A i \in 1..Len(loads') : EnsuredAdditively(loads'[i])]_vars

\* a load met a table that lacked a column of its schema and held another of its
\* columns under a different type
C5_Witness ==
    \E i \in LoadIx :
        /\ loads[i].pre.exists
        /\ Len(loads[i].ensured.cols) > Len(loads[i].pre.cols)
        /\ \E a \in 1..Len(loads[i].pre.cols), b \in 1..Len(loads[i].schema) :
              /\ loads[i].pre.cols[a].name = loads[i].schema[b].name
              /\ loads[i].pre.cols[a].type # loads[i].schema[b].type

\* the loads that met a column of their schema in the table as an earlier run
\* left it, under another type: the load's index, the column's place in the
\* table and in the schema
Retyped ==
    {p \in UNION {{i} \X (1..Len(loads[i].pre.cols)) \X (1..Len(loads[i].schema)) :
                     i \in LoadIx} :
        /\ loads[p[1]].exc = ""
        /\ loads[p[1]].pre.exists
        /\ \A k \in 1..(p[1] - 1) : loads[k].table # loads[p[1]].table
        /\ loads[p[1]].pre.cols[p[2]].name = loads[p[1]].schema[p[3]].name
        /\ loads[p[1]].pre.cols[p[2]].type # loads[p[1]].schema[p[3]].type}

\* the rows of the load that are mappings
Mappings(l) == SelectSeq(l.rows, IsMapping)

\* what the table keeps of the column in each row of the load, when the values
\* are coerced to the type coerceTo and stored in a column declared as declared
KeptAs(l, col, coerceTo, declared) ==
    [i \in 1..Len(Mappings(l)) |->
        ApplyAffinity(Affinity(declared), _coerce_value(coerceTo, OrigVal(Mappings(l)[i], col)))]

ColumnOf(rows, col) == [i \in 1..Len(rows) |-> rows[i][col]]

\* C8 (as amended): when a column already exists in the table under a type from
\* an earlier load and the current run infers a different type for it, the
\* column keeps its original declared type, and the values inserted are coerced
\* to the type inferred in the current run and then stored in the column of the
\* original type.
C8_KeepsTypeCoercesToInferred ==
    \A p \in Retyped :
        /\ loads[p[1]].post.cols[p[2]] = loads[p[1]].pre.cols[p[2]]
        /\ ColumnOf(loads[p[1]].post.rows, loads[p[1]].schema[p[3]].name)
              = KeptAs(loads[p[1]], loads[p[1]].schema[p[3]].name,
                       loads[p[1]].schema[p[3]].type, loads[p[1]].pre.cols[p[2]].type)

\* C8 (as stated): ... the column keeps its original stored type and the values
\* inserted in the current run are coerced to that original stored type, not to
\* the type inferred in the current run.
C8_CoercesToOriginalType ==
    \A p \in Retyped :
        /\ loads[p[1]].post.cols[p[2]] = loads[p[1]].pre.cols[p[2]]
        /\ ColumnOf(loads[p[1]].post.rows, loads[p[1]].schema[p[3]].name)
              = KeptAs(loads[p[1]], loads[p[1]].schema[p[3]].name,
                       loads[p[1]].pre.cols[p[2]].type, loads[p[1]].pre.cols[p[2]].type)

\* a load stored a value in a column the table already held under another type
C8_Witness ==
    \E p \in Retyped :
        \E i \in 1..Len(loads[p[1]].post.rows) :
            loads[p[1]].post.rows[i][loads[p[1]].schema[p[3]].name] # JNull

----------------------------------------------------------------------------
(* Claims about loading one sheet (SpecLoad) *)

\* C6: loading a sheet fully replaces the table's contents: after a load without
\* error the table holds exactly one row per mapping element of rows, in order
\* and none of the rows it held before; elements that are not mappings give no
\* row; and the count reported as 'inserted' is the number of mapping elements,
\* below, at and above the batch size.
C6_LoadReplacesContents ==
    \A i \in LoadIx :
        loads[i].exc = ""
           => /\ loads[i].inserted = Len(Mappings(loads[i]))
              /\ Len(loads[i].post.rows) = Len(Mappings(loads[i]))
              /\ \A c \in 1..Len(loads[i].schema) :
                    ColumnOf(loads[i].post.rows, loads[i].schema[c].name)
                       = KeptAs(loads[i], loads[i].schema[c].name, loads[i].schema[c].type,
                                ColType(loads[i].post.cols, loads[i].schema[c].name))

\* a sheet of more mappings than one batch, with elements that are not mappings,
\* was loaded into a table that held rows
C6_Witness ==
    \E i \in LoadIx :
        /\ loads[i].exc = ""
        /\ Len(loads[i].pre.rows) > 0
        /\ Len(Mappings(loads[i])) > batch_size
        /\ Len(loads[i].rows) > Len(Mappings(loads[i]))
        /\ Len(loads[i].post.rows) # Len(loads[i].pre.rows)

----------------------------------------------------------------------------
(* Claims about the row-page read (SpecRead) *)

\* the table a request names
Requested(req) == _sanitize_table(req.dataset \o SepSep \o req.sheet)

\* the request is one the claim speaks of: an existing table tname, a limit in
\* 1..200, an offset >= 0, and no order or an order by one of the table's columns
Servable(d, req, tname) ==
    /\ HasTable(d, tname)
    /\ req.limit \in 1..MaxLimit
    /\ req.offset >= 0
    /\ req.order_by # <<>> => _sanitize_table(req.order_by) \in ColNames(d[tname].cols)

\* seq is sorted by the column ob, ascending or descending
SortedBy(seq, ob, asc) ==
    \A i, j \in 1..Len(seq) :
        i < j => IF asc THEN ~Before(seq[j][ob], seq[i][ob])
                 ELSE ~Before(seq[i][ob], seq[j][ob])

\* the matching rows in the requested order: the table's order when none is
\* asked for
OrderedMatches(matching, req) ==
    IF req.order_by = <<>> THEN {matching}
    ELSE UNION {{seq \in {[i \in 1..Len(matching) |-> matching[f[i]]] :
                             f \in Permutations(1..Len(matching))} :
                    SortedBy(seq, ob, asc)} :
                  ob \in {_sanitize_table(req.order_by)},
                  asc \in {Lower(req.order_dir) = S_asc}}

\* the answer p is the page of the rows matching, of all rows, in the order and
\* window the request asks for
IsPageOfRows(p, matching, all, textless, req) ==
    /\ p.status = 200
    /\ p.total = Len(matching)
    /\ \E seq \in OrderedMatches(matching, req) :
          /\ Len(p.rows) = Max(0, Min(req.limit, Len(seq) - req.offset))
          /\ \A i \in 1..Len(p.rows) : p.rows[i] = seq[req.offset + i]
    /\ req.offset >= p.total => p.rows = <<>>
    /\ textless => p.total = Len(all)

\* the answer p is the page of the table t that the request asks for
IsPageOf(p, t, req) ==
    \A matching \in {Matching(t, req.search)} :
        IsPageOfRows(p, matching, t.rows, text_cols(t.cols) = {}, req)

\* C10: for an existing table, a limit in 1..200 and an offset >= 0 the row-page
\* read returns total = the number of rows matching the search filter, whatever
\* limit and offset are, and rows = the elements offset .. offset+limit-1 of the
\* matching rows in the requested order; an offset at or beyond total gives no
\* rows with the right total, and a search on a table without TEXT columns
\* filters nothing.
C10_PageOfMatchingRows ==
    [][nreads' # nreads
          => \A tname \in {Requested(page'.req)} :
                Servable(db, page'.req, tname) => IsPageOf(page', db[tname], page'.req)]_vars

\* a search that keeps some rows and not others was answered, ordered, from an
\* offset past the first match
C10_Witness ==
    /\ nreads > 0
    /\ page.status = 200
    /\ page.req.search # <<>>
    /\ page.req.order_by # <<>>
    /\ page.req.offset > 0
    /\ page.rows # <<>>
    /\ page.total > Len(page.rows)
    /\ page.total < Len(db[Requested(page.req)].rows)

----------------------------------------------------------------------------
(* Claims about identifier normalisation (SpecIdent) *)

\* C12: identifier normalisation is idempotent: normalising a normalised name
\* with the same max_len >= 1 gives it back; hence a name ingestion produced
\* passes unchanged through the read side's _sanitize_table.
C12_NormalizeIdempotent ==
    /\ \A i \in 2..Len(idents) : idents[i] = idents[1]
    /\ sanitized # <<>> => sanitized[1] = idents[1]

====
